---------------------------- MODULE Spec2Model ----------------------------
(***************************************************************************)
(* The capture-session reactor of nethogs (src/main.cpp): startup          *)
(* (device list, UI, privilege check, self-pipe, one capture session per   *)
(* device), the main loop (dispatch pass, refresh check, idle wait), the   *)
(* SIGINT handler quit_cb, and clean_up.                                   *)
(*                                                                         *)
(* The model is of the __linux__ build and starts where option parsing     *)
(* (lines 140-184) has ended without an exit.  Calls into the rest of the  *)
(* program and into libpcap/libc (get_devices, init_ui, exit_ui, getLocal, *)
(* dp_open_live, dp_dispatch, select, time, ...) are recorded as counters  *)
(* and their results are inputs drawn with \E at the call.                 *)
(***************************************************************************)
EXTENDS Integers, Sequences, FiniteSets

(* ------------------------------ bounds --------------------------------- *)
\* most devices get_devices returns
MaxDevices == 2
\* largest value of option -d
MaxDelay == 2
\* last clock reading modelled (seconds)
MaxTime == 3
\* longest single advance of the clock between two steps (a stall)
MaxJump == 2
\* bytes the self-pipe holds before a write finds it full
PipeCap == 1
\* iterations of the main loop modelled
MaxIter == 2

(* --------------------------- program constants ------------------------- *)
CAP_NET_ADMIN == 12
CAP_NET_RAW == 13
EXIT_SUCCESS == 0
EXIT_FAILURE == 1
\* descriptors pipe() hands out, and the descriptor of device d's session
PipeReadFd == 3
PipeWriteFd == 4
DevFd(d) == PipeWriteFd + d

NoPipe == <<-1, -1>>

\* the build's DEBUG macro: a release build
DEBUG == FALSE

VARIABLES
  pc,                \* position of main(): see PcValues
  exit_status,       \* -1 while the process runs, else its exit status
  blocked,           \* a system call of the signal handler is blocked
  tracemode,         \* option -t / -b
  refreshdelay,      \* option -d
  ndev,              \* length of the list get_devices returned
  euid,              \* geteuid(), -1 before it is read
  exe_ok,            \* readlink("/proc/self/exe") succeeded ("unread" before)
  caps1,             \* caps[1] after getxattr (-1 before it is read)
  init_ui_calls,     \* calls of init_ui
  exit_ui_calls,     \* calls of exit_ui
  self_pipe,         \* <<read end, write end>>
  pipe_nonblock,     \* O_NONBLOCK of <<read end, write end>>
  pipe_bytes,        \* bytes in the self-pipe
  pc_loop_use_select,
  pc_loop_fd_list,
  nb_devices,
  nb_failed_devices,
  current_dev,       \* index in the device list of the device opened next
  handles,           \* the session chain: device indices, head first
  open_calls,        \* calls of dp_open_live
  open_result,       \* per device: "none" | "null" | "open"
  skip_notices,      \* per device: "Error opening handler" lines
  fd_unavailable,    \* pcap_get_selectable_fd has returned -1
  sig_installed,     \* signal(SIGINT, &quit_cb) has run
  iter,              \* iterations of the main loop started
  packets_read,
  current_handle,    \* index in handles of the session dispatched next
  retval,            \* dp_dispatch's last result
  in_batch,          \* control is inside dp_dispatch
  dispatch_calls,    \* calls of dp_dispatch
  err_log,           \* devices named by the error lines of the last dp_dispatch
  erred,             \* a dp_dispatch has returned an error
  clock,             \* what ::time(NULL) reads
  last_refresh_time,
  refresh_calls,     \* calls of do_refresh
  ui_tick_calls,     \* calls of ui_tick
  refresh_at,        \* clock reading of the latest refresh (-1: none)
  refresh_gap,       \* readings between the latest two refreshes (-1: none)
  select_calls,      \* calls of select()
  trigger,           \* wait_for_next_trigger's last result
  shutdown_seen,     \* wait_for_next_trigger has returned false
  quit_in_pass,      \* quit_cb ran inside dp_dispatch in the current pass
  cleanup_calls,     \* calls of clean_up
  closed,            \* descriptors clean_up closed
  pass_all_errors,   \* every dp_dispatch of the current pass returned an error
  pass_positive,     \* a session returned packets in the current pass
  select_failed,     \* select() returned -1 in the current iteration
  byte_at_wait,      \* the pipe held a byte when select() was last called
  blocking_session,  \* a session of the chain was left in blocking mode
  registered,        \* descriptors ever pushed on pc_loop_fd_list
  released           \* sessions clean_up released, in order

vars == << pc, exit_status, blocked, tracemode, refreshdelay, ndev,
           euid, exe_ok, caps1, init_ui_calls, exit_ui_calls, self_pipe,
           pipe_nonblock, pipe_bytes, pc_loop_use_select, pc_loop_fd_list,
           nb_devices, nb_failed_devices, current_dev, handles, open_calls,
           open_result, skip_notices, fd_unavailable, sig_installed, iter,
           packets_read, current_handle, retval, in_batch, dispatch_calls,
           err_log, erred, clock, last_refresh_time, refresh_calls, ui_tick_calls,
           refresh_at, refresh_gap, select_calls, trigger, shutdown_seen,
           quit_in_pass, cleanup_calls, closed, pass_all_errors, pass_positive,
           select_failed, byte_at_wait, blocking_session, registered,
           released >>

startupVars == << ndev, euid, exe_ok, caps1, init_ui_calls >>
pipeVars == << self_pipe, pipe_nonblock, pipe_bytes >>
openVars == << pc_loop_use_select, pc_loop_fd_list, nb_devices,
               nb_failed_devices, current_dev, handles, open_calls,
               open_result, skip_notices, fd_unavailable >>
dispatchVars == << iter, packets_read, current_handle, retval, in_batch,
                   dispatch_calls, err_log, erred >>
refreshVars == << last_refresh_time, refresh_calls, ui_tick_calls,
                  refresh_at, refresh_gap >>
waitVars == << select_calls, trigger, shutdown_seen >>
optionVars == << tracemode, refreshdelay >>
cleanVars == << cleanup_calls, closed >>
passVars == << pass_all_errors, pass_positive, select_failed, byte_at_wait >>
sessVars == << blocking_session, registered, released >>

Devices == 1..MaxDevices
RefreshDelays == 0..MaxDelay
\* values of caps[1]: no capability, one of the two, both
Caps1Values == {0, 2^CAP_NET_ADMIN, 2^CAP_NET_RAW,
                2^CAP_NET_ADMIN + 2^CAP_NET_RAW}
\* values dp_dispatch returns: an error with and without dp_geterr text,
\* nothing pending, packets processed
Retvals == {-2, -1, 0, 1}

PcValues == {"get_devices", "init_ui", "privilege", "self_pipe", "open",
             "loop", "dispatch", "refresh", "wait", "clean_up", "done",
             "exited"}

(* ------------------------------ helpers -------------------------------- *)
\* (x >> n) & 1
Bit(x, n) == (x \div (2^n)) % 2

\* the condition of `if ((!tracemode) && (!DEBUG))`
UiMode(trace, debug) == (~trace) /\ (~debug)

\* forceExit with the two exits swapped
ForceExitStatusSwapped(success) ==
  IF success THEN EXIT_FAILURE ELSE EXIT_SUCCESS

\* forceExit's choice of exit status
ForceExitStatus(success) == IF success THEN EXIT_SUCCESS ELSE EXIT_FAILURE

\* forceExit(success, msg): releases the UI when in UI mode, then exits
ForceExit(success) ==
  /\ exit_ui_calls' = IF UiMode(tracemode, DEBUG)
                        THEN exit_ui_calls + 1 ELSE exit_ui_calls
  /\ exit_status' = ForceExitStatus(success)
  /\ pc' = "exited"

Init ==
  /\ pc = "get_devices"
  /\ exit_status = -1
  /\ blocked = FALSE
  /\ tracemode \in BOOLEAN
  /\ refreshdelay \in RefreshDelays
  /\ ndev = 0
  /\ euid = -1
  /\ exe_ok = "unread"
  /\ caps1 = -1
  /\ init_ui_calls = 0
  /\ exit_ui_calls = 0
  /\ self_pipe = NoPipe
  /\ pipe_nonblock = <<FALSE, FALSE>>
  /\ pipe_bytes = 0
  /\ pc_loop_use_select = TRUE
  /\ pc_loop_fd_list = <<>>
  /\ nb_devices = 0
  /\ nb_failed_devices = 0
  /\ current_dev = 1
  /\ handles = <<>>
  /\ open_calls = 0
  /\ open_result = [d \in Devices |-> "none"]
  /\ skip_notices = [d \in Devices |-> 0]
  /\ fd_unavailable = FALSE
  /\ sig_installed = FALSE
  /\ iter = 0
  /\ packets_read = FALSE
  /\ current_handle = 1
  /\ retval = 0
  /\ in_batch = FALSE
  /\ dispatch_calls = 0
  /\ err_log = <<>>
  /\ erred = FALSE
  /\ clock = 0
  /\ last_refresh_time = 0
  /\ refresh_calls = 0
  /\ ui_tick_calls = 0
  /\ refresh_at = -1
  /\ refresh_gap = -1
  /\ select_calls = 0
  /\ trigger = TRUE
  /\ shutdown_seen = FALSE
  /\ quit_in_pass = FALSE
  /\ cleanup_calls = 0
  /\ closed = {}
  /\ pass_all_errors = FALSE
  /\ pass_positive = FALSE
  /\ select_failed = FALSE
  /\ byte_at_wait = FALSE
  /\ blocking_session = FALSE
  /\ registered = {}
  /\ released = <<>>

(* ------------------------------ startup -------------------------------- *)
\* GetDevices with signal(SIGINT, &quit_cb) moved up from line 281
GetDevicesWithSignal ==
  /\ pc = "get_devices"
  /\ sig_installed' = TRUE
  /\ \E n \in 0..MaxDevices :
       /\ ndev' = n
       /\ IF n = 0
            THEN ForceExit(FALSE)
            ELSE /\ pc' = "init_ui"
                 /\ UNCHANGED << exit_ui_calls, exit_status >>
  /\ UNCHANGED << blocked, optionVars, euid, exe_ok, caps1, init_ui_calls,
                  pipeVars, openVars, dispatchVars, clock, refreshVars,
                  waitVars, quit_in_pass, cleanVars,
                  passVars, sessVars >>

\* main, lines 186-189: the device list; none is fatal
GetDevices ==
  /\ pc = "get_devices"
  /\ \E n \in 0..MaxDevices :
       /\ ndev' = n
       /\ IF n = 0
            THEN ForceExit(FALSE)
            ELSE /\ pc' = "init_ui"
                 /\ UNCHANGED << exit_ui_calls, exit_status >>
  /\ UNCHANGED << blocked, optionVars, euid, exe_ok, caps1, init_ui_calls,
                  pipeVars, openVars, sig_installed, dispatchVars, clock,
                  refreshVars, waitVars, quit_in_pass, cleanVars,
                  passVars, sessVars >>

\* main, lines 191-193
InitUi ==
  /\ pc = "init_ui"
  /\ init_ui_calls' = IF UiMode(tracemode, DEBUG)
                        THEN init_ui_calls + 1 ELSE init_ui_calls
  /\ pc' = "privilege"
  /\ UNCHANGED << exit_status, blocked, optionVars, ndev, euid, exe_ok, caps1,
                  exit_ui_calls, pipeVars, openVars, sig_installed,
                  dispatchVars, clock, refreshVars, waitVars, quit_in_pass,
                  cleanVars,
                  passVars, sessVars >>

\* line 207 with && for ||: one capability is enough
CapsMissingBoth(c) ==
  (Bit(c, CAP_NET_ADMIN) # 1) /\ (Bit(c, CAP_NET_RAW) # 1)

\* the test of line 207
CapsMissing(c) ==
  (Bit(c, CAP_NET_ADMIN) # 1) \/ (Bit(c, CAP_NET_RAW) # 1)

\* main, lines 195-212: TRUE when the check lets startup go on.  uid is
\* geteuid(), rl whether readlink succeeded, c is caps[1] after getxattr
\* (0 when getxattr fails: the array is zero-initialised and the result of
\* getxattr is not looked at).  Paths shorter than PATH_MAX are modelled.
PrivilegeOk(uid, rl, c) ==
  IF uid # 0
    THEN IF ~rl THEN FALSE
         ELSE ~CapsMissing(c)
    ELSE TRUE

PrivilegeCheck ==
  /\ pc = "privilege"
  /\ \E uid \in {0, 1000}, rl \in BOOLEAN, c \in Caps1Values :
       \* readlink and getxattr are reached only when not root, and getxattr
       \* only when readlink succeeded
       /\ (uid = 0) => (rl = TRUE /\ c = 0)
       /\ (~rl) => (c = 0)
       /\ euid' = uid
       /\ exe_ok' = IF uid = 0 THEN "unread" ELSE IF rl THEN "yes" ELSE "no"
       /\ caps1' = IF uid = 0 \/ ~rl THEN -1 ELSE c
       /\ IF PrivilegeOk(uid, rl, c)
            THEN /\ pc' = "self_pipe"
                 /\ UNCHANGED << exit_ui_calls, exit_status >>
            ELSE ForceExit(FALSE)
  /\ UNCHANGED << blocked, optionVars, ndev, init_ui_calls, pipeVars,
                  openVars, sig_installed, dispatchVars, clock, refreshVars,
                  waitVars, quit_in_pass, cleanVars,
                  passVars, sessVars >>

\* create_self_pipe without the fcntl of line 92: the write end stays blocking
create_self_pipe_blocking(p, f0, f1) ==
  IF ~p THEN [pair |-> NoPipe, nonblock |-> <<FALSE, FALSE>>]
  ELSE IF ~f0 THEN [pair |-> NoPipe, nonblock |-> <<FALSE, FALSE>>]
  ELSE [pair |-> <<PipeReadFd, PipeWriteFd>>, nonblock |-> <<TRUE, FALSE>>]

\* create_self_pipe, lines 84-96: the pair returned and the O_NONBLOCK flags
\* of the two ends.  p, f0, f1: pipe() and the two fcntl(F_SETFL) succeed
create_self_pipe(p, f0, f1) ==
  IF ~p THEN [pair |-> NoPipe, nonblock |-> <<FALSE, FALSE>>]
  ELSE IF ~f0 THEN [pair |-> NoPipe, nonblock |-> <<FALSE, FALSE>>]
  ELSE IF ~f1 THEN [pair |-> NoPipe, nonblock |-> <<TRUE, FALSE>>]
  ELSE [pair |-> <<PipeReadFd, PipeWriteFd>>, nonblock |-> <<TRUE, TRUE>>]

\* main, lines 215-221
CreatePipe ==
  /\ pc = "self_pipe"
  /\ \E p \in BOOLEAN, f0 \in BOOLEAN, f1 \in BOOLEAN :
       LET r == create_self_pipe(p, f0, f1) IN
       /\ self_pipe' = r.pair
       /\ pipe_nonblock' = r.nonblock
       /\ registered' = IF r.pair[1] = -1 \/ r.pair[2] = -1
                           THEN registered ELSE registered \cup {r.pair[1]}
       /\ IF r.pair[1] = -1 \/ r.pair[2] = -1
            THEN /\ ForceExit(FALSE)
                 /\ UNCHANGED pc_loop_fd_list
            ELSE /\ pc_loop_fd_list' = Append(pc_loop_fd_list, r.pair[1])
                 /\ pc' = "open"
                 /\ UNCHANGED << exit_ui_calls, exit_status >>
  /\ UNCHANGED << blocked, optionVars, startupVars, pipe_bytes,
                  pc_loop_use_select, nb_devices, nb_failed_devices,
                  current_dev, handles, open_calls, open_result, skip_notices,
                  fd_unavailable, sig_installed, dispatchVars, clock,
                  refreshVars, waitVars, quit_in_pass, cleanVars,
                  passVars, blocking_session, released >>

(* ------------------------- opening the devices ------------------------- *)
\* RegisterFd without the test of line 256: a later device is registered and
\* multiplexing resumes
RegisterFdUnguarded(use_select, fd_list, fd) ==
  IF fd # -1
    THEN [use_select |-> TRUE, fd_list |-> Append(fd_list, fd)]
    ELSE [use_select |-> FALSE, fd_list |-> <<>>]

\* RegisterFd without the push_back of line 260
RegisterFdDropped(use_select, fd_list, fd) ==
  IF use_select
    THEN IF fd # -1
           THEN [use_select |-> TRUE, fd_list |-> fd_list]
           ELSE [use_select |-> FALSE, fd_list |-> <<>>]
    ELSE [use_select |-> use_select, fd_list |-> fd_list]

\* main, lines 256-267: what registering a new session's descriptor does to
\* pc_loop_use_select and pc_loop_fd_list; fd is pcap_get_selectable_fd's
\* result, which is asked for only while pc_loop_use_select holds
RegisterFd(use_select, fd_list, fd) ==
  IF use_select
    THEN IF fd # -1
           THEN [use_select |-> TRUE, fd_list |-> Append(fd_list, fd)]
           ELSE [use_select |-> FALSE, fd_list |-> <<>>]
    ELSE [use_select |-> use_select, fd_list |-> fd_list]

\* the descriptors in a list (the loop of lines 100-107 puts each of
\* pc_loop_fd_list in the fd_set given to select())
RangeOf(s) == {s[i] : i \in 1..Len(s)}

\* lines 251-254: whether the chain holds a session in blocking mode once
\* dp_setnonblock has returned nb for a new session: a failure is reported
\* and the session is chained all the same
BlockingAfter(was, nb) == was \/ nb = -1

\* line 254: handles = new handle(newhandle, name, handles)
Prepend(d, chain) == <<d>> \o chain

\* main, lines 230-275: one pass of the while loop, for device current_dev.
\* local_ok: getLocal succeeded; opened: dp_open_live returned a handle;
\* nb: what dp_setnonblock returns for it;
\* fd: what pcap_get_selectable_fd returns, or would return, for it
OpenDevice ==
  /\ pc = "open"
  /\ current_dev <= ndev
  /\ \E local_ok \in BOOLEAN, opened \in BOOLEAN, nb \in {-1, 0},
        fd \in {-1, DevFd(current_dev)} :
       /\ (~local_ok) => (~opened /\ fd = -1)
       /\ (~opened) => (fd = -1 /\ nb = 0)
       /\ nb_devices' = nb_devices + 1
       /\ IF ~local_ok
            THEN /\ ForceExit(FALSE)
                 /\ UNCHANGED << pc_loop_use_select, pc_loop_fd_list,
                                 nb_failed_devices, current_dev, handles,
                                 open_calls, open_result, skip_notices,
                                 fd_unavailable, blocking_session, registered >>
            ELSE /\ open_calls' = open_calls + 1
                 /\ current_dev' = current_dev + 1
                 /\ UNCHANGED << pc, exit_status, exit_ui_calls >>
                 /\ IF opened
                      THEN LET r == RegisterFd(pc_loop_use_select,
                                               pc_loop_fd_list, fd) IN
                           /\ handles' = Prepend(current_dev, handles)
                           /\ open_result' =
                                [open_result EXCEPT ![current_dev] = "open"]
                           /\ pc_loop_use_select' = r.use_select
                           /\ pc_loop_fd_list' = r.fd_list
                           /\ blocking_session' =
                                BlockingAfter(blocking_session, nb)
                           /\ registered' =
                                registered \cup RangeOf(r.fd_list)
                           /\ fd_unavailable' =
                                (fd_unavailable
                                   \/ (pc_loop_use_select /\ fd = -1))
                           /\ UNCHANGED << nb_failed_devices, skip_notices >>
                      ELSE /\ skip_notices' =
                                [skip_notices EXCEPT ![current_dev] = @ + 1]
                           /\ open_result' =
                                [open_result EXCEPT ![current_dev] = "null"]
                           /\ nb_failed_devices' = nb_failed_devices + 1
                           /\ UNCHANGED << handles, pc_loop_use_select,
                                           pc_loop_fd_list, fd_unavailable,
                                           blocking_session, registered >>
  /\ UNCHANGED << blocked, optionVars, startupVars, pipeVars, sig_installed,
                  dispatchVars, clock, refreshVars, waitVars, quit_in_pass,
                  cleanVars,
                  passVars, released >>

\* line 277 as `nb_failed_devices > 0`: one failure is fatal
AnyFailed(n, failed) == failed > 0

\* line 277: no device opened
AllFailed(n, failed) == n = failed

\* main, lines 277-283: after the last device
DevicesOpened ==
  /\ pc = "open"
  /\ current_dev > ndev
  /\ IF AllFailed(nb_devices, nb_failed_devices)
       THEN /\ ForceExit(FALSE)
            /\ UNCHANGED sig_installed
       ELSE /\ sig_installed' = TRUE
            /\ pc' = "loop"
            /\ UNCHANGED << exit_ui_calls, exit_status >>
  /\ UNCHANGED << blocked, optionVars, startupVars, pipeVars, openVars,
                  dispatchVars, clock, refreshVars, waitVars, quit_in_pass,
                  cleanVars,
                  passVars, sessVars >>

(* ------------------------------ main loop ------------------------------ *)
\* main, lines 286-289: the top of an iteration
LoopTop ==
  /\ pc = "loop"
  /\ iter < MaxIter
  /\ iter' = iter + 1
  /\ packets_read' = FALSE
  /\ current_handle' = 1
  /\ pc' = "dispatch"
  /\ pass_all_errors' = TRUE
  /\ pass_positive' = FALSE
  /\ select_failed' = FALSE
  /\ byte_at_wait' = FALSE
  /\ UNCHANGED << exit_status, blocked, optionVars, startupVars,
                  exit_ui_calls, pipeVars, openVars, sig_installed, retval,
                  in_batch, dispatch_calls, err_log, erred, clock, refreshVars,
                  waitVars, quit_in_pass, cleanVars,
                  sessVars >>

\* main, lines 291-294: control enters dp_dispatch for the current session
DispatchCall ==
  /\ pc = "dispatch"
  /\ ~in_batch
  /\ current_handle <= Len(handles)
  /\ in_batch' = TRUE
  /\ dispatch_calls' = dispatch_calls + 1
  /\ UNCHANGED << pc, exit_status, blocked, optionVars, startupVars,
                  exit_ui_calls, pipeVars, openVars, sig_installed, iter,
                  packets_read, current_handle, retval, err_log, erred, clock,
                  refreshVars, waitVars, quit_in_pass, cleanVars,
                  passVars, sessVars >>

\* lines 295-300 with `if` for the first `else if`: -1 is reported twice
ErrorLinesNoElse(r, d) ==
  (IF r = -1 THEN <<d>> ELSE <<>>) \o (IF r < 0 THEN <<d>> ELSE <<>>)

\* lines 295-300: the error lines written for result r of dp_dispatch on the
\* session of device d, each line by the device it names
ErrorLines(r, d) == IF r = -1 THEN <<d>> ELSE IF r < 0 THEN <<d>> ELSE <<>>

\* lines 301-302: packets_read after a result of dp_dispatch
Productive(r, was) ==
  IF r = -1 THEN was ELSE IF r < 0 THEN was ELSE IF r # 0 THEN TRUE ELSE was

\* main, lines 293-303: dp_dispatch returns r for the current session
DispatchReturn ==
  /\ pc = "dispatch"
  /\ in_batch
  /\ \E r \in Retvals :
       LET d == handles[current_handle] IN
       /\ retval' = r
       /\ err_log' = ErrorLines(r, d)
       /\ erred' = (erred \/ r < 0)
       /\ packets_read' = Productive(r, packets_read)
       /\ pass_all_errors' = (pass_all_errors /\ r < 0)
       /\ pass_positive' = (pass_positive \/ r > 0)
  /\ in_batch' = FALSE
  /\ current_handle' = current_handle + 1
  /\ pc' = IF current_handle + 1 > Len(handles) THEN "refresh" ELSE "dispatch"
  /\ UNCHANGED << exit_status, blocked, optionVars, startupVars,
                  exit_ui_calls, pipeVars, openVars, sig_installed, iter,
                  dispatch_calls, clock, refreshVars, waitVars, quit_in_pass,
                  cleanVars,
                  select_failed, byte_at_wait, sessVars >>

\* line 306: the refresh is due
RefreshDue(last, delay, now) == last + delay <= now

\* line 307 as `last_refresh_time += refreshdelay`: missed periods pile up
AdvanceByPeriod(last, delay, now) == last + delay

\* line 307: last_refresh_time after a refresh at `now`
Advance(last, delay, now) == now

\* lines 316-317 without the test of packets_read: every iteration waits
GoesIdleAlways(read) == TRUE

\* lines 316-317: whether the iteration goes to wait_for_next_trigger
GoesIdle(read) == ~read

\* main, lines 305-316: the refresh check, then the choice between the idle
\* wait and the next iteration
RefreshCheck ==
  /\ pc = "refresh"
  /\ LET now == clock IN
     IF RefreshDue(last_refresh_time, refreshdelay, now)
       THEN /\ last_refresh_time' =
                 Advance(last_refresh_time, refreshdelay, now)
            /\ ui_tick_calls' = IF UiMode(tracemode, DEBUG)
                                  THEN ui_tick_calls + 1 ELSE ui_tick_calls
            /\ refresh_calls' = refresh_calls + 1
            /\ refresh_at' = now
            /\ refresh_gap' = IF refresh_at = -1 THEN -1 ELSE now - refresh_at
       ELSE UNCHANGED refreshVars
  /\ pc' = IF GoesIdle(packets_read) THEN "wait" ELSE "loop"
  \* retval, the lines it caused and the results of the pass belong to the
  \* for loop that has ended
  /\ retval' = 0
  /\ err_log' = <<>>
  /\ pass_all_errors' = FALSE
  /\ UNCHANGED << exit_status, blocked, optionVars, startupVars,
                  exit_ui_calls, pipeVars, openVars, sig_installed, iter,
                  packets_read, current_handle, in_batch, dispatch_calls,
                  erred, clock, waitVars, quit_in_pass, cleanVars,
                  pass_positive, select_failed, byte_at_wait, sessVars >>

\* wait_for_next_trigger without the test of select()'s result (line 109)
wait_for_next_trigger_unchecked(use_select, sel, ready, read_end) ==
  IF use_select
    THEN IF read_end \in ready THEN FALSE ELSE TRUE
    ELSE TRUE

\* wait_for_next_trigger, lines 98-119.  sel is what select() returned and
\* ready the descriptors it left in pc_loop_fd_set; both are looked at only
\* when use_select holds
wait_for_next_trigger(use_select, sel, ready, read_end) ==
  IF use_select
    THEN IF sel # -1
           THEN IF read_end \in ready THEN FALSE ELSE TRUE
           ELSE TRUE
    ELSE TRUE

\* AfterWait without the break of line 319
AfterWaitNoBreak(trig) == "loop"

\* lines 317-319: where the loop goes after wait_for_next_trigger
AfterWait(trig) == IF ~trig THEN "clean_up" ELSE "loop"

\* main, lines 317-319 with wait_for_next_trigger: select() fails (EINTR;
\* always, with a negative timeout), or returns with the descriptors that are
\* readable: the self-pipe's read end when the pipe holds a byte, and any of
\* the sessions' descriptors
IdleWait ==
  /\ pc = "wait"
  /\ \E fail \in BOOLEAN, data \in SUBSET (RangeOf(pc_loop_fd_list) \ {self_pipe[1]}) :
       /\ (refreshdelay < 0) => fail
       /\ (~pc_loop_use_select) => (~fail /\ data = {})
       /\ LET ready == data \cup
                        (IF pipe_bytes > 0
                           THEN RangeOf(pc_loop_fd_list) \cap {self_pipe[1]}
                           ELSE {})
              sel == IF fail THEN -1 ELSE Cardinality(ready)
              t == wait_for_next_trigger(pc_loop_use_select, sel, ready,
                                         self_pipe[1])
          IN /\ select_failed' = (pc_loop_use_select /\ sel = -1)
             /\ byte_at_wait' = (pc_loop_use_select /\ pipe_bytes > 0)
             /\ trigger' = t
             /\ shutdown_seen' = (shutdown_seen \/ ~t)
             /\ pc' = AfterWait(t)
  /\ select_calls' = IF pc_loop_use_select
                       THEN select_calls + 1 ELSE select_calls
  /\ quit_in_pass' = FALSE
  /\ UNCHANGED << exit_status, blocked, optionVars, startupVars,
                  exit_ui_calls, pipeVars, openVars, sig_installed,
                  dispatchVars, clock, refreshVars, cleanVars,
                  pass_all_errors, pass_positive, sessVars >>

\* lines 123-126: the descriptors clean_up closes
ClosedBy(fd_list) == RangeOf(fd_list)

\* lines 121-131: the sessions of the chain clean_up releases: it has no
\* call that closes or deletes a session
ReleasedBy(chain) == <<>>

\* clean_up, lines 121-131, and the return from main (line 322)
CleanUp ==
  /\ pc = "clean_up"
  /\ closed' = closed \cup ClosedBy(pc_loop_fd_list)
  /\ released' = released \o ReleasedBy(handles)
  /\ cleanup_calls' = cleanup_calls + 1
  /\ exit_ui_calls' = IF UiMode(tracemode, DEBUG)
                        THEN exit_ui_calls + 1 ELSE exit_ui_calls
  /\ exit_status' = EXIT_SUCCESS
  /\ pc' = "done"
  /\ UNCHANGED << blocked, optionVars, startupVars, pipeVars, openVars,
                  sig_installed, dispatchVars, clock, refreshVars, waitVars,
                  quit_in_pass,
                  passVars, blocking_session, registered >>

(* ---------------------------- the handler ------------------------------ *)
\* write(fd, "x", 1) on the pipe's write end: the byte is queued; when the
\* pipe is full a non-blocking end fails with EAGAIN and a blocking end waits
PipeWrite(bytes, nonblock) ==
  IF bytes < PipeCap
    THEN [bytes |-> bytes + 1, blocked |-> FALSE]
    ELSE [bytes |-> bytes, blocked |-> ~nonblock]

\* quit_cb, lines 59-65
quit_cb ==
  /\ IF self_pipe[2] # -1
       THEN LET w == PipeWrite(pipe_bytes, pipe_nonblock[2]) IN
            /\ pipe_bytes' = w.bytes
            /\ blocked' = w.blocked
            /\ UNCHANGED << pc, exit_status >>
       ELSE /\ pc' = "exited"
            /\ exit_status' = 0
            /\ UNCHANGED << pipe_bytes, blocked >>
  /\ quit_in_pass' = (quit_in_pass \/ in_batch)
  /\ UNCHANGED << optionVars, startupVars, exit_ui_calls, self_pipe,
                  pipe_nonblock, openVars, sig_installed, dispatchVars, clock,
                  refreshVars, waitVars, cleanVars,
                  passVars, sessVars >>

\* SIGINT is delivered to the running process while the handler of line 281
\* is installed
Signal ==
  /\ sig_installed
  /\ exit_status = -1
  /\ ~blocked
  /\ quit_cb

\* the clock moves on; it is read at line 305 only
Tick ==
  /\ pc = "refresh"
  /\ \E d \in 1..MaxJump :
       /\ clock + d <= MaxTime
       /\ clock' = clock + d
  /\ UNCHANGED << pc, exit_status, blocked, optionVars, startupVars,
                  exit_ui_calls, pipeVars, openVars, sig_installed,
                  dispatchVars, refreshVars, waitVars, quit_in_pass,
                  cleanVars,
                  passVars, sessVars >>

Next ==
  \/ GetDevices
  \/ InitUi
  \/ PrivilegeCheck
  \/ CreatePipe
  \/ OpenDevice
  \/ DevicesOpened
  \/ LoopTop
  \/ DispatchCall
  \/ DispatchReturn
  \/ RefreshCheck
  \/ IdleWait
  \/ CleanUp
  \/ Signal
  \/ Tick

Spec == Init /\ [][Next]_vars

(* ============================== claims ================================= *)

\* the main loop has been entered
InLoop == pc \in {"loop", "dispatch", "refresh", "wait"}

\* C1 (graceful drain): once wait_for_next_trigger has returned false no step
\* calls dp_dispatch, ui_tick or do_refresh again, clean_up has not run before
\* the loop is left, and when main has returned it has run exactly once.
C1_GracefulDrain ==
  /\ [][shutdown_seen => /\ dispatch_calls' = dispatch_calls
                         /\ refresh_calls' = refresh_calls
                         /\ ui_tick_calls' = ui_tick_calls
                         /\ select_calls' = select_calls
                         /\ cleanup_calls' \in {cleanup_calls, 1}]_vars
  /\ [](shutdown_seen => pc \in {"clean_up", "done"})
  /\ [](pc = "clean_up" => cleanup_calls = 0)
  /\ [](pc = "done" => cleanup_calls = 1)

\* C1 witness: the loop dispatched and refreshed, saw the shutdown byte, and
\* main returned after clean_up.
C1_Witness ==
  /\ pc = "done"
  /\ shutdown_seen
  /\ cleanup_calls = 1
  /\ dispatch_calls > 0
  /\ refresh_calls > 0

\* C2 (fallback monotonicity): from the first -1 of pcap_get_selectable_fd
\* on, pc_loop_use_select is false, pc_loop_fd_list stays as clear() left it
\* (nothing is added to it again) and select() is never called.
C2_FallbackMonotonic ==
  fd_unavailable => /\ ~pc_loop_use_select
                    /\ pc_loop_fd_list = <<>>
                    /\ select_calls = 0

\* C2 witness: the first device opened without a selectable descriptor, a
\* later device opened too, and an iteration of the loop has gone through its
\* idle wait.
C2_Witness ==
  /\ fd_unavailable
  /\ handles = <<2, 1>>
  /\ pc = "loop"
  /\ iter >= 1
  /\ ~packets_read

\* C3 (shutdown during a dispatch pass), as claimed: when quit_cb has run
\* inside dp_dispatch, the next call of wait_for_next_trigger returns false
\* and the loop is left for clean_up.
C3_NextCheckObserves ==
  [][(pc = "wait" /\ quit_in_pass /\ pc' # pc) => pc' = "clean_up"]_vars

(* ------------------- quit_cb called in any program state --------------- *)
\* quit_cb has external linkage: the states it can be called in are those
\* before the self-pipe exists (the statics as initialised) and those after
\* create_self_pipe succeeded; the pipe is empty until quit_cb writes to it
InitQuitCb ==
  /\ \E made \in BOOLEAN :
       LET r == create_self_pipe(made, made, made) IN
       /\ self_pipe = r.pair
       /\ pipe_nonblock = r.nonblock
       /\ pipe_bytes = 0
       /\ pc \in (IF made THEN {"open", "loop", "dispatch", "refresh", "wait"}
                          ELSE {"get_devices", "init_ui", "privilege",
                                "self_pipe"})
       /\ pc_loop_fd_list \in (IF made
                                 THEN {<<>>, <<PipeReadFd>>,
                                       <<PipeReadFd, DevFd(1)>>}
                                 ELSE {<<>>})
       /\ pc_loop_use_select = (pc_loop_fd_list # <<>> \/ ~made)
       /\ sig_installed = (made /\ pc # "open")
  /\ exit_status = -1
  /\ blocked = FALSE
  /\ tracemode \in BOOLEAN
  /\ refreshdelay \in RefreshDelays
  /\ ndev = 0
  /\ euid = -1
  /\ exe_ok = "unread"
  /\ caps1 = -1
  /\ init_ui_calls = 0
  /\ exit_ui_calls = 0
  /\ nb_devices = 0
  /\ nb_failed_devices = 0
  /\ current_dev = 1
  /\ handles = <<>>
  /\ open_calls = 0
  /\ open_result = [d \in Devices |-> "none"]
  /\ skip_notices = [d \in Devices |-> 0]
  /\ fd_unavailable = FALSE
  /\ iter = 0
  /\ packets_read \in BOOLEAN
  /\ current_handle = 1
  /\ retval = 0
  /\ in_batch = FALSE
  /\ dispatch_calls = 0
  /\ err_log = <<>>
  /\ erred = FALSE
  /\ clock \in 0..MaxTime
  /\ last_refresh_time \in 0..clock
  /\ refresh_calls = 0
  /\ ui_tick_calls = 0
  /\ refresh_at = -1
  /\ refresh_gap = -1
  /\ select_calls = 0
  /\ trigger = TRUE
  /\ shutdown_seen = FALSE
  /\ quit_in_pass = FALSE
  /\ cleanup_calls = 0
  /\ closed = {}
  /\ pass_all_errors = FALSE
  /\ pass_positive = FALSE
  /\ select_failed = FALSE
  /\ byte_at_wait = FALSE
  /\ blocking_session = FALSE
  /\ registered = RangeOf(pc_loop_fd_list)
  /\ released = <<>>

\* one call of quit_cb in a running process
QuitCbCall ==
  /\ exit_status = -1
  /\ ~blocked
  /\ quit_cb

SpecQuitCb == InitQuitCb /\ [][QuitCbCall]_vars

\* every variable quit_cb has no business with
reactorState ==
  << tracemode, refreshdelay, ndev, euid, exe_ok, caps1, init_ui_calls,
     exit_ui_calls, self_pipe, pipe_nonblock, pc_loop_use_select,
     pc_loop_fd_list, nb_devices, nb_failed_devices, current_dev, handles,
     open_calls, open_result, skip_notices, fd_unavailable, sig_installed,
     iter, packets_read, current_handle, retval, in_batch, dispatch_calls,
     err_log, erred, clock, last_refresh_time, refresh_calls, ui_tick_calls,
     refresh_at, refresh_gap, select_calls, trigger, shutdown_seen,
     cleanup_calls, closed, pass_all_errors, pass_positive, select_failed,
     byte_at_wait,
     blocking_session, registered, released >>

\* C4 (signal safety): a call of quit_cb, however many came before it, never
\* blocks; with the pipe in place it changes nothing but the bytes in the
\* pipe (one more, or none when the pipe is full) and main stays where it
\* is; without the pipe it ends the process at once, with status 0.
C4_SignalSafety ==
  [][/\ ~blocked'
     /\ reactorState' = reactorState
     /\ IF self_pipe[2] # -1
          THEN /\ pc' = pc
               /\ exit_status' = exit_status
               /\ pipe_bytes' = IF pipe_bytes < PipeCap
                                  THEN pipe_bytes + 1 ELSE pipe_bytes
          ELSE /\ pc' = "exited"
               /\ exit_status' # -1
               /\ pipe_bytes' = pipe_bytes]_vars

\* C4 witness: the pipe is full after repeated calls of quit_cb and the
\* process still runs where it was, unblocked.
C4_Witness ==
  /\ self_pipe[2] # -1
  /\ pipe_bytes = PipeCap
  /\ exit_status = -1
  /\ ~blocked
  /\ pc = "dispatch"

\* C5 (refresh cadence): with a period P >= 1, a refresh check that finds P
\* or more seconds gone since the last refresh (however many periods were
\* missed) fires exactly one refresh and sets last_refresh_time to the time
\* read, any other check fires none, and two successive refreshes are never
\* less than P seconds apart.
C5_RefreshCadence ==
  /\ [][(pc = "refresh" /\ pc' # pc /\ refreshdelay >= 1) =>
          IF clock - last_refresh_time >= refreshdelay
            THEN /\ refresh_calls' = refresh_calls + 1
                 /\ last_refresh_time' = clock
                 /\ refresh_at' = clock
            ELSE /\ refresh_calls' = refresh_calls
                 /\ last_refresh_time' = last_refresh_time]_vars
  /\ []((refreshdelay >= 1 /\ refresh_gap # -1) => refresh_gap >= refreshdelay)
  /\ [](refresh_at # -1 => last_refresh_time = refresh_at)

\* C5 witness: a refresh fired after a stall longer than the period since
\* the refresh before it, once, and the time it fired at was recorded.
C5_Witness ==
  /\ refreshdelay >= 1
  /\ refresh_calls = 2
  /\ refresh_gap > refreshdelay
  /\ last_refresh_time = clock

\* the privilege check must fail: not root, and the path of the binary was
\* not resolved or its capability word lacks one of bits 12 and 13
PrivilegeDenied ==
  /\ euid \notin {-1, 0}
  /\ \/ exe_ok = "no"
     \/ (exe_ok = "yes" /\ (caps1 \div 4096) % 4 # 3)

\* C6 (privilege gate): when the privilege check must fail, dp_open_live has
\* not been called and the process has exited with a failure status.
C6_PrivilegeGate ==
  PrivilegeDenied => /\ open_calls = 0
                     /\ handles = <<>>
                     /\ pc = "exited"
                     /\ exit_status = EXIT_FAILURE

\* C6 witness: a non-root run whose binary has only one of the two
\* capabilities has exited.
C6_Witness ==
  /\ euid = 1000
  /\ caps1 = 2^CAP_NET_RAW
  /\ pc = "exited"

\* the devices dp_open_live returned a handle / NULL for
OpenedDevices == {d \in Devices : open_result[d] = "open"}
FailedDevices == {d \in Devices : open_result[d] = "null"}

\* C7 (soft per-device open failure): a NULL from dp_open_live writes one
\* skip notice for that device and leaves startup running; once the list is
\* done and some device opened, the loop starts; and in the loop the chain
\* holds exactly the devices that opened, each once, every failed device
\* having exactly one notice.
C7_SoftOpenFailure ==
  /\ [][(pc = "open" /\ current_dev <= ndev
           /\ open_result'[current_dev] = "null") =>
          /\ pc' = "open"
          /\ exit_status' = -1
          /\ skip_notices'[current_dev] = skip_notices[current_dev] + 1
          /\ handles' = handles]_vars
  /\ [][(pc = "open" /\ current_dev > ndev /\ OpenedDevices # {}) =>
          pc' \in {"open", "loop"}]_vars
  /\ [](\A d \in Devices :
          skip_notices[d] = IF d \in FailedDevices THEN 1 ELSE 0)
  /\ [](InLoop => /\ RangeOf(handles) = OpenedDevices
                  /\ Len(handles) = Cardinality(OpenedDevices)
                  /\ OpenedDevices # {}
                  /\ OpenedDevices \cup FailedDevices = 1..ndev)

\* C7 witness: of two devices the first failed to open and the second
\* opened, and the loop has started with the second alone in the chain.
C7_Witness ==
  /\ pc = "dispatch"
  /\ open_result[1] = "null"
  /\ open_result[2] = "open"
  /\ handles = <<2>>
  /\ skip_notices[1] = 1

\* a fatal startup condition has occurred: no device to monitor, privilege
\* denied, no self-pipe once past its creation, or every device tried and
\* none opened
FatalStartup ==
  \/ (pc # "get_devices" /\ ndev = 0)
  \/ PrivilegeDenied
  \/ (pc \notin {"get_devices", "init_ui", "privilege", "self_pipe"}
        /\ self_pipe = NoPipe)
  \/ (ndev > 0 /\ current_dev > ndev /\ OpenedDevices = {}
        /\ pc # "open")

\* C8 (fatal startup conditions): after any of them the process has exited
\* with a non-zero status and the loop was never entered: dp_dispatch was
\* not called.
C8_FatalStartup ==
  FatalStartup => /\ pc = "exited"
                  /\ exit_status # 0
                  /\ exit_status # -1
                  /\ iter = 0
                  /\ dispatch_calls = 0

\* C8 witness: every device was tried, none opened, and the process exited.
C8_Witness ==
  /\ pc = "exited"
  /\ ndev = MaxDevices
  /\ current_dev > ndev
  /\ nb_failed_devices = ndev
  /\ self_pipe # NoPipe

\* C9 (dispatch errors are not fatal): a negative result of dp_dispatch
\* writes exactly one line, naming the session's device, and leaves
\* packets_read alone; any result leaves the chain as it was and the loop
\* running; a positive result marks the iteration productive whatever the
\* session returned before; and every pass dispatches every session once.
C9_DispatchErrorsSoft ==
  /\ [][(pc = "dispatch" /\ in_batch /\ ~in_batch') =>
          LET d == handles[current_handle] IN
          /\ (retval' < 0 => (err_log' = <<d>>
                                /\ packets_read' = packets_read))
          /\ (retval' >= 0 => err_log' = <<>>)
          /\ (retval' > 0 => packets_read')
          /\ handles' = handles
          /\ pc' \in {"dispatch", "refresh"}
          /\ exit_status' = -1]_vars
  /\ [][handles' # handles => pc = "open"]_vars
  /\ [](pc \in {"refresh", "wait"} =>
          dispatch_calls = iter * Len(handles))

\* C9 witness: the one session of the chain returned an error in an earlier
\* iteration and has now returned packets, and the iteration is productive.
C9_Witness ==
  /\ pc \in {"dispatch", "refresh"}
  /\ ~in_batch
  /\ current_handle > 1
  /\ Len(handles) = 1
  /\ erred
  /\ retval > 0
  /\ packets_read
  /\ iter >= 2

\* C10 (UI bracket), as claimed: exit_ui is called at most once and only
\* after init_ui, a process that called init_ui has called exit_ui when it
\* ends, and in trace or debug mode neither is called.
C10_UiBracket ==
  /\ exit_ui_calls <= 1
  /\ (exit_ui_calls > 0 => init_ui_calls > 0)
  /\ ((pc \in {"done", "exited"} /\ init_ui_calls > 0) => exit_ui_calls = 1)
  /\ ((tracemode \/ DEBUG) => (init_ui_calls = 0 /\ exit_ui_calls = 0))

\* C11 (fallback mode stays responsive), as claimed: in fallback mode the
\* idle step polls the shutdown signal, so an idle step taken with a byte in
\* the self-pipe leaves the loop for clean_up.
C11_FallbackPolls ==
  [][(pc = "wait" /\ ~pc_loop_use_select /\ pipe_bytes > 0 /\ pc' # pc) =>
       pc' = "clean_up"]_vars

\* C12 (shutdown is not starved by data), as claimed: cancellation is
\* checked in every iteration, productive or not, so an iteration that ends
\* with a byte in the self-pipe is not followed by another iteration
\* without wait_for_next_trigger having been called.
C12_CheckedEveryIteration ==
  [][(pc = "refresh" /\ pipe_bytes > 0 /\ pc' # pc) => pc' # "loop"]_vars

\* C15 (per-device conditions never terminate the process), as claimed: once
\* a device has opened, nothing that happens to another device during
\* startup ends the process.
C15_PerDeviceSoft ==
  (OpenedDevices # {} /\ ~sig_installed) => pc # "exited"

\* the descriptors of the sessions in the chain
SessionFds == {DevFd(d) : d \in RangeOf(handles)}

\* C17 (readiness registry): in multiplexed mode, in the loop, the
\* descriptors given to select() are the self-pipe's read end and the
\* descriptor of every session in the chain, and pc_loop_fd_list holds each
\* once.
C17_RegistryContents ==
  (InLoop /\ pc_loop_use_select) =>
     /\ RangeOf(pc_loop_fd_list) = {self_pipe[1]} \cup SessionFds
     /\ Len(pc_loop_fd_list) = Cardinality(RangeOf(pc_loop_fd_list))
     /\ self_pipe[1] # -1
     /\ -1 \notin RangeOf(pc_loop_fd_list)

\* C17 witness: the loop is about to call select() with two sessions in the
\* chain.
C17_Witness ==
  /\ pc = "wait"
  /\ pc_loop_use_select
  /\ Len(handles) = 2
  /\ pc_loop_fd_list = <<PipeReadFd, DevFd(1), DevFd(2)>>

\* C20 (handler installed last): while the handler is installed the
\* self-pipe exists and every device has been tried, so quit_cb run as the
\* handler writes to the pipe; a process that ended with the handler
\* installed ended by main returning after the loop saw the byte and
\* clean_up ran once, never through exit().
C20_HandlerAfterPipe ==
  sig_installed =>
     /\ self_pipe[1] # -1
     /\ self_pipe[2] # -1
     /\ current_dev > ndev
     /\ pc \in {"loop", "dispatch", "refresh", "wait", "clean_up", "done"}
     /\ (exit_status # -1 => /\ pc = "done"
                             /\ shutdown_seen
                             /\ pipe_bytes > 0
                             /\ cleanup_calls = 1)

\* C20 witness: SIGINT was handled, the loop saw the byte and main returned.
C20_Witness ==
  /\ sig_installed
  /\ pipe_bytes > 0
  /\ shutdown_seen
  /\ pc = "done"

\* C13 (emergency stop), as claimed: an iteration in which every session of
\* the chain returned an error from dp_dispatch leaves the loop for clean_up
\* in that iteration, not waiting for a shutdown request.
C13_EmergencyStop ==
  [][(pc = "refresh" /\ pass_all_errors /\ pc' # pc) => pc' = "clean_up"]_vars

\* C14 (teardown releases every resource once), as claimed: when main has
\* returned, clean_up has run once, every descriptor registered during
\* startup has been closed, every session of the chain has been released
\* once, in chain order, and exit_ui was called exactly when not in trace or
\* debug mode.
C14_TeardownReleases ==
  pc = "done" => /\ cleanup_calls = 1
                 /\ registered \subseteq closed
                 /\ released = handles
                 /\ exit_ui_calls = (IF tracemode \/ DEBUG THEN 0 ELSE 1)

\* C16 (every dispatch is non-blocking), as claimed: in the loop every
\* session of the chain is in non-blocking mode.
C16_NonBlockingDispatch ==
  InLoop => ~blocking_session

\* C18 (ordering inside an iteration): an iteration starts by resetting
\* packets_read and taking the head of the chain; the refresh check is
\* reached only from the dispatch of the last session, with every session
\* dispatched once in every iteration so far; wait_for_next_trigger is
\* entered only from the refresh check, and only in an iteration in which no
\* session returned a positive count.
C18_IterationOrder ==
  /\ [][(pc = "loop" /\ pc' # pc) => /\ pc' = "dispatch"
                                     /\ ~packets_read'
                                     /\ current_handle' = 1
                                     /\ iter' = iter + 1]_vars
  /\ [][dispatch_calls' # dispatch_calls =>
          /\ pc = "dispatch"
          /\ dispatch_calls' = dispatch_calls + 1
          /\ dispatch_calls' = (iter - 1) * Len(handles) + current_handle]_vars
  /\ [][(pc' = "refresh" /\ pc # "refresh") =>
          /\ pc = "dispatch"
          /\ in_batch
          /\ current_handle = Len(handles)]_vars
  /\ [](pc = "refresh" => dispatch_calls = iter * Len(handles))
  /\ [][(pc' = "wait" /\ pc # "wait") => pc = "refresh"]_vars
  /\ [][select_calls' # select_calls => pc = "wait"]_vars
  /\ [](pc = "wait" => /\ ~pass_positive
                       /\ ~packets_read
                       /\ dispatch_calls = iter * Len(handles))
  /\ [][(pc = "refresh" /\ pass_positive /\ pc' # pc) => pc' = "loop"]_vars

\* C18 witness: with two sessions, the first iteration was productive and
\* went on without select(), and the second, with both sessions dispatched
\* again and no packets, is at its idle wait.
C18_Witness ==
  /\ pc = "wait"
  /\ iter = 2
  /\ Len(handles) = 2
  /\ dispatch_calls = 4
  /\ pc_loop_use_select
  /\ select_calls = 0

\* C19 (the shutdown byte is never lost in multiplexed mode): nothing takes
\* a byte out of the self-pipe; a call of wait_for_next_trigger made in
\* multiplexed mode with a byte in the pipe leaves the loop for clean_up
\* when select() does not return -1, and when it returns -1 it returns true
\* and the loop makes one more pass; the loop is left in no other way.
C19_ShutdownByteKept ==
  /\ [][pipe_bytes' >= pipe_bytes]_vars
  /\ [][(pc = "wait" /\ pc_loop_use_select /\ pipe_bytes > 0 /\ pc' # pc) =>
          IF select_failed'
            THEN /\ trigger'
                 /\ pc' = "loop"
            ELSE /\ ~trigger'
                 /\ pc' = "clean_up"]_vars
  /\ [][(pc = "loop" /\ select_failed /\ pc' # pc) =>
          /\ pc' = "dispatch"
          /\ current_handle' = 1]_vars
  /\ [][(pc' = "clean_up" /\ pc # "clean_up") =>
          /\ pc = "wait"
          /\ pc_loop_use_select
          /\ pipe_bytes > 0
          /\ ~select_failed']_vars

\* C19 witness: select() returned -1 with the byte already in the pipe, and
\* the loop is about to make another pass with the byte still there.
C19_Witness ==
  /\ pc = "loop"
  /\ pc_loop_use_select
  /\ select_failed
  /\ byte_at_wait
  /\ pipe_bytes > 0

=============================================================================
